---------------------------- MODULE Spec2Model ----------------------------
(***************************************************************************)
(* Model of the command-line flag interpreter of agent-browser:            *)
(*   cli/src/validation.rs  is_valid_session_name, session_name_error      *)
(*   cli/src/flags.rs       parse_flags, clean_args                        *)
(*                                                                         *)
(* A string is the sequence of its Unicode code points (Rust chars); the   *)
(* bytes the validator iterates over are its UTF-8 encoding.  Option<T> is *)
(* a sequence of length at most one: None is <<>>, Some(x) is <<x>>.       *)
(* Indices into args are 0-based as in the source; args[i] of the source   *)
(* is args[i + 1] here.                                                    *)
(***************************************************************************)
EXTENDS Integers, Sequences, FiniteSets, TLC

VARIABLES
    env,        \* the process environment: the three variables parse_flags reads
    args,       \* the argument list handed to parse_flags and clean_args
    pc,         \* position of the host: start, scan, parsed, done, idle
    i,          \* parse_flags: the cursor of the while loop
    flags,      \* parse_flags: the Flags struct under construction
    errors,     \* parse_flags: the error vector
    asFlag,     \* history: indices the scan matched against a flag arm
    asValue,    \* history: indices the scan consumed as a flag's value
    result,     \* the vector clean_args returned
    removed,    \* history: indices clean_args visited without pushing
    name,       \* validator run: the string under test
    verdict     \* validator run: None, or Some(returned bool)

vars == <<env, args, pc, i, flags, errors, asFlag, asValue,
          result, removed, name, verdict>>

---------------------------------------------------------------------------
(* Bounds of the model *)

\* longest argument list
MaxArgs == 3
\* longest argument list over the smaller token set
MaxDeepArgs == 4
\* longest string handed to the validator on its own
MaxLen == 3

---------------------------------------------------------------------------
(* Option<T> *)

None == <<>>
Some(x) == <<x>>

---------------------------------------------------------------------------
(* String literals of the source, as code point sequences *)

F_json == <<45, 45, 106, 115, 111, 110>>                  \* "--json"
F_full == <<45, 45, 102, 117, 108, 108>>                  \* "--full"
F_f == <<45, 102>>                                        \* "-f"
F_headed == <<45, 45, 104, 101, 97, 100, 101, 100>>       \* "--headed"
F_debug == <<45, 45, 100, 101, 98, 117, 103>>             \* "--debug"
F_session == <<45, 45, 115, 101, 115, 115, 105, 111, 110>>  \* "--session"
F_headers == <<45, 45, 104, 101, 97, 100, 101, 114, 115>>   \* "--headers"
F_executable_path ==
    <<45, 45, 101, 120, 101, 99, 117, 116, 97, 98, 108, 101, 45, 112, 97, 116, 104>>
                                                          \* "--executable-path"
F_cdp == <<45, 45, 99, 100, 112>>                         \* "--cdp"
F_session_name ==
    <<45, 45, 115, 101, 115, 115, 105, 111, 110, 45, 110, 97, 109, 101>>
                                                          \* "--session-name"
S_default == <<100, 101, 102, 97, 117, 108, 116>>         \* "default"

---------------------------------------------------------------------------
(* validation.rs *)

\* u8::is_ascii_alphanumeric: b'0'..=b'9' | b'A'..=b'Z' | b'a'..=b'z'
is_ascii_alphanumeric(b) ==
    \/ (48 <= b /\ b <= 57)
    \/ (65 <= b /\ b <= 90)
    \/ (97 <= b /\ b <= 122)

\* the UTF-8 encoding of one code point
utf8(c) ==
    IF c < 128 THEN <<c>>
    ELSE IF c < 2048 THEN <<192 + (c \div 64), 128 + (c % 64)>>
    ELSE IF c < 65536
         THEN <<224 + (c \div 4096), 128 + ((c \div 64) % 64), 128 + (c % 64)>>
    ELSE <<240 + (c \div 262144), 128 + ((c \div 4096) % 64),
           128 + ((c \div 64) % 64), 128 + (c % 64)>>

RECURSIVE as_bytes(_)
\* str::as_bytes: the bytes of the string
as_bytes(s) == IF s = <<>> THEN <<>> ELSE utf8(Head(s)) \o as_bytes(Tail(s))

\* variant: a dot is taken for an allowed byte
is_valid_byte_dot(b) == is_ascii_alphanumeric(b) \/ b = 45 \/ b = 95 \/ b = 46

\* variant: the hyphen is not allowed
is_valid_byte_no_hyphen(b) == is_ascii_alphanumeric(b) \/ b = 95

\* the loop body's test of one byte:  b.is_ascii_alphanumeric() || b == b'-' || b == b'_'
is_valid_byte(b) == is_ascii_alphanumeric(b) \/ b = 45 \/ b = 95

RECURSIVE bytes_valid_from(_, _)
\* the for loop over the bytes, from position k on: false at the first invalid byte
bytes_valid_from(bs, k) ==
    IF k > Len(bs) THEN TRUE
    ELSE IF ~is_valid_byte(bs[k]) THEN FALSE
    ELSE bytes_valid_from(bs, k + 1)

is_valid_session_name(s) ==
    IF s = <<>> THEN FALSE ELSE bytes_valid_from(as_bytes(s), 1)

\* format!("Invalid session name '{}'. Only ...", name): the three pieces of the text
session_name_error(s) ==
    <<"Invalid session name '", s,
      "'. Only alphanumeric characters, hyphens, and underscores are allowed.">>

---------------------------------------------------------------------------
(* flags.rs: parse_flags *)

\* the message pushed for an invalid AGENT_BROWSER_SESSION_NAME
env_session_name_error(s) ==
    <<"Invalid AGENT_BROWSER_SESSION_NAME '", s,
      "'. Only alphanumeric characters, hyphens, and underscores are allowed.">>

\* the message pushed for an invalid --session-name value
flag_session_name_error(s) ==
    <<"Invalid session name '", s,
      "'. Only alphanumeric characters, hyphens, and underscores are allowed.">>

\* validated_env_session_name
validated_env_session_name(e) ==
    IF e.AGENT_BROWSER_SESSION_NAME # None
    THEN IF is_valid_session_name(e.AGENT_BROWSER_SESSION_NAME[1])
         THEN Some(e.AGENT_BROWSER_SESSION_NAME[1])
         ELSE None
    ELSE None

\* the errors vector after the environment has been validated
env_errors(e) ==
    IF e.AGENT_BROWSER_SESSION_NAME # None
       /\ ~is_valid_session_name(e.AGENT_BROWSER_SESSION_NAME[1])
    THEN <<env_session_name_error(e.AGENT_BROWSER_SESSION_NAME[1])>>
    ELSE <<>>

\* unwrap_or_else(|_| "default".to_string())
env_session(e) ==
    IF e.AGENT_BROWSER_SESSION # None THEN e.AGENT_BROWSER_SESSION[1] ELSE S_default

\* the Flags struct literal
default_flags(e) ==
    [json |-> FALSE, full |-> FALSE, headed |-> FALSE, debug |-> FALSE,
     session |-> env_session(e),
     headers |-> None,
     executable_path |-> e.AGENT_BROWSER_EXECUTABLE_PATH,
     cdp |-> None,
     session_name |-> validated_env_session_name(e)]

\* the locals of parse_flags when the loop is entered
scan_start(e) ==
    [i |-> 0, flags |-> default_flags(e), errors |-> env_errors(e), arm |-> "none"]

\* args.get(k)
get(a, k) == IF k < Len(a) THEN Some(a[k + 1]) ELSE None

\* variant: --session does not override a session that is not "default"
arm_session_first_wins(st, a) ==
    IF get(a, st.i + 1) # None
    THEN IF st.flags.session = S_default
         THEN [st EXCEPT !.flags.session = get(a, st.i + 1)[1], !.i = @ + 1]
         ELSE [st EXCEPT !.i = @ + 1]
    ELSE st

\* the "--session" arm
arm_session(st, a) ==
    IF get(a, st.i + 1) # None
    THEN [st EXCEPT !.flags.session = get(a, st.i + 1)[1], !.i = @ + 1]
    ELSE st

\* the "--headers" arm
arm_headers(st, a) ==
    IF get(a, st.i + 1) # None
    THEN [st EXCEPT !.flags.headers = Some(get(a, st.i + 1)[1]), !.i = @ + 1]
    ELSE st

\* variant: --executable-path without a value clears the field
arm_executable_path_clears(st, a) ==
    IF get(a, st.i + 1) # None
    THEN [st EXCEPT !.flags.executable_path = Some(get(a, st.i + 1)[1]), !.i = @ + 1]
    ELSE [st EXCEPT !.flags.executable_path = None]

\* the "--executable-path" arm
arm_executable_path(st, a) ==
    IF get(a, st.i + 1) # None
    THEN [st EXCEPT !.flags.executable_path = Some(get(a, st.i + 1)[1]), !.i = @ + 1]
    ELSE st

\* the "--cdp" arm
arm_cdp(st, a) ==
    IF get(a, st.i + 1) # None
    THEN [st EXCEPT !.flags.cdp = Some(get(a, st.i + 1)[1]), !.i = @ + 1]
    ELSE st

\* variant: the value is stored without being validated
arm_session_name_unchecked(st, a) ==
    IF get(a, st.i + 1) # None
    THEN [st EXCEPT !.flags.session_name = Some(get(a, st.i + 1)[1]), !.i = @ + 1]
    ELSE st

\* variant: a rejected value is not consumed
arm_session_name_no_consume(st, a) ==
    IF get(a, st.i + 1) # None
    THEN LET s == get(a, st.i + 1)[1]
         IN  IF is_valid_session_name(s)
             THEN [st EXCEPT !.flags.session_name = Some(s), !.i = @ + 1]
             ELSE [st EXCEPT !.errors = Append(@, flag_session_name_error(s))]
    ELSE st

\* variant: the error is put in front of the list
arm_session_name_prepend(st, a) ==
    IF get(a, st.i + 1) # None
    THEN LET s == get(a, st.i + 1)[1]
         IN  IF is_valid_session_name(s)
             THEN [st EXCEPT !.flags.session_name = Some(s), !.i = @ + 1]
             ELSE [st EXCEPT !.errors = <<flag_session_name_error(s)>> \o @,
                             !.i = @ + 1]
    ELSE st

\* the "--session-name" arm
arm_session_name(st, a) ==
    IF get(a, st.i + 1) # None
    THEN LET s == get(a, st.i + 1)[1]
         IN  IF is_valid_session_name(s)
             THEN [st EXCEPT !.flags.session_name = Some(s), !.i = @ + 1]
             ELSE [st EXCEPT !.errors = Append(@, flag_session_name_error(s)),
                             !.i = @ + 1]
    ELSE st

\* the match on args[i]; arm records which arm was taken
match_arm(st, a) ==
    LET tok == a[st.i + 1]
    IN  CASE tok = F_json -> [st EXCEPT !.flags.json = TRUE, !.arm = "--json"]
          [] tok = F_full \/ tok = F_f -> [st EXCEPT !.flags.full = TRUE, !.arm = "--full"]
          [] tok = F_headed -> [st EXCEPT !.flags.headed = TRUE, !.arm = "--headed"]
          [] tok = F_debug -> [st EXCEPT !.flags.debug = TRUE, !.arm = "--debug"]
          [] tok = F_session -> [arm_session(st, a) EXCEPT !.arm = "--session"]
          [] tok = F_headers -> [arm_headers(st, a) EXCEPT !.arm = "--headers"]
          [] tok = F_executable_path ->
                [arm_executable_path(st, a) EXCEPT !.arm = "--executable-path"]
          [] tok = F_cdp -> [arm_cdp(st, a) EXCEPT !.arm = "--cdp"]
          [] tok = F_session_name ->
                [arm_session_name(st, a) EXCEPT !.arm = "--session-name"]
          [] OTHER -> [st EXCEPT !.arm = "_"]

\* one iteration of the while loop: the match, then i += 1
scan_iteration(st, a) == [match_arm(st, a) EXCEPT !.i = @ + 1]

RECURSIVE scan_from(_, _)
\* the while loop, run to its end from the locals st
scan_from(st, a) ==
    IF st.i < Len(a) THEN scan_from(scan_iteration(st, a), a) ELSE st

\* parse_flags as a function of the environment and the argument list
parse_flags(e, a) ==
    LET st == scan_from(scan_start(e), a)
    IN  [flags |-> st.flags, errors |-> st.errors]

---------------------------------------------------------------------------
(* flags.rs: clean_args *)

GLOBAL_FLAGS == {F_json, F_full, F_headed, F_debug}

\* variant: the list as it was before --session-name existed
GLOBAL_FLAGS_WITH_VALUE_old == {F_session, F_headers, F_executable_path, F_cdp}

GLOBAL_FLAGS_WITH_VALUE ==
    {F_session, F_headers, F_executable_path, F_cdp, F_session_name}

\* the locals of clean_args when the loop is entered
clean_start == [skip_next |-> FALSE, result |-> <<>>]

\* variant: "-f" is not stripped
clean_iteration_no_short_f(cs, arg) ==
    IF cs.skip_next THEN [cs EXCEPT !.skip_next = FALSE]
    ELSE IF arg \in GLOBAL_FLAGS_WITH_VALUE THEN [cs EXCEPT !.skip_next = TRUE]
    ELSE IF arg \in GLOBAL_FLAGS THEN cs
    ELSE [cs EXCEPT !.result = Append(@, arg)]

\* variant: a value-taking flag name in value position arms skip_next again
clean_iteration_chained(cs, arg) ==
    IF arg \in GLOBAL_FLAGS_WITH_VALUE THEN [cs EXCEPT !.skip_next = TRUE]
    ELSE IF cs.skip_next THEN [cs EXCEPT !.skip_next = FALSE]
    ELSE IF arg \in GLOBAL_FLAGS \/ arg = F_f THEN cs
    ELSE [cs EXCEPT !.result = Append(@, arg)]

\* one iteration of the for loop, on element arg
clean_iteration(cs, arg) ==
    IF cs.skip_next THEN [cs EXCEPT !.skip_next = FALSE]
    ELSE IF arg \in GLOBAL_FLAGS_WITH_VALUE THEN [cs EXCEPT !.skip_next = TRUE]
    ELSE IF arg \in GLOBAL_FLAGS \/ arg = F_f THEN cs
    ELSE [cs EXCEPT !.result = Append(@, arg)]

RECURSIVE clean_from(_, _, _)
\* the for loop, run to its end from the locals cs with k elements visited
clean_from(cs, a, k) ==
    IF k < Len(a) THEN clean_from(clean_iteration(cs, a[k + 1]), a, k + 1) ELSE cs

\* the locals of clean_args after the first k iterations of the loop
clean_after(a, k) == clean_from(clean_start, SubSeq(a, 1, k), 0)

\* clean_args as a function of the argument list
clean_args(a) == clean_after(a, Len(a)).result

---------------------------------------------------------------------------
(* Inputs *)

V_good == <<109, 121, 45, 112, 114, 111, 106, 101, 99, 116>>   \* "my-project"
V_bad == <<46, 46, 47, 98, 97, 100>>                           \* "../bad"
V_dots == <<46, 46>>                                           \* ".."
E_session == <<119, 111, 114, 107>>                            \* "work"
E_path == <<47, 111, 112, 116, 47, 99, 104, 114, 111, 109, 101>>  \* "/opt/chrome"
E_good == <<109, 121, 95, 101, 110, 118>>                      \* "my_env"
E_bad == <<97, 32, 98>>                                        \* "a b"

\* every flag name the two routines recognize
FlagNames == {F_json, F_full, F_f, F_headed, F_debug,
              F_session, F_headers, F_executable_path, F_cdp, F_session_name}

\* the tokens argument lists are built from: every flag name, a valid and an
\* invalid session name
Tokens == FlagNames \cup {V_good, V_bad}

ArgLists == UNION {[1..n -> Tokens] : n \in 0..MaxArgs}

\* a smaller token set for longer argument lists: the flags of the three
\* fields that have a default from the environment, one boolean flag, a valid
\* and two invalid session names
DeepTokens == {F_session, F_executable_path, F_session_name, F_json,
               V_good, V_bad, V_dots}

DeepArgLists == UNION {[1..n -> DeepTokens] : n \in 0..MaxDeepArgs}

\* the environments: AGENT_BROWSER_SESSION_NAME unset, valid or invalid; the
\* two other variables both unset or both set
Envs == {[AGENT_BROWSER_SESSION_NAME |-> n,
          AGENT_BROWSER_SESSION |-> o[1],
          AGENT_BROWSER_EXECUTABLE_PATH |-> o[2]] :
            n \in {None, Some(E_good), Some(E_bad)},
            o \in {<<None, None>>, <<Some(E_session), Some(E_path)>>}}

\* the code points validator inputs are built from: the ends of the three
\* alphanumeric ranges and their outer neighbours, the two allowed marks, the
\* marks the documentation names, and two non-ASCII code points
Chars == {97, 122, 65, 90, 48, 57,      \* a z A Z 0 9
          96, 123, 64, 91, 47, 58,      \* ` { @ [ / :
          45, 95,                       \* - _
          46, 92, 32, 42,               \* . \ space *
          233, 8364}                    \* e-acute, euro sign

Names == UNION {[1..n -> Chars] : n \in 0..MaxLen}

\* the value of the Flags struct before parse_flags has built it
NoFlags ==
    [json |-> FALSE, full |-> FALSE, headed |-> FALSE, debug |-> FALSE,
     session |-> <<>>, headers |-> None, executable_path |-> None,
     cdp |-> None, session_name |-> None]

---------------------------------------------------------------------------
(* The host: parse_flags, step by step, then clean_args, on the same
   argument list *)

\* the state before parse_flags is called on argument list a in environment e
Start(e, a) ==
    /\ env = e
    /\ args = a
    /\ pc = "start"
    /\ i = 0
    /\ flags = NoFlags
    /\ errors = <<>>
    /\ asFlag = {}
    /\ asValue = {}
    /\ result = <<>>
    /\ removed = {}
    /\ name = <<>>
    /\ verdict = None

Init == \E e \in Envs, a \in ArgLists : Start(e, a)

InitDeep == \E e \in Envs, a \in DeepArgLists : Start(e, a)

\* parse_flags up to the loop: validate the environment, build the struct
SeedDefaults ==
    /\ pc = "start"
    /\ pc' = "scan"
    /\ i' = scan_start(env).i
    /\ flags' = scan_start(env).flags
    /\ errors' = scan_start(env).errors
    /\ UNCHANGED <<env, args, asFlag, asValue, result, removed, name, verdict>>

\* one iteration of the while loop
ScanStep ==
    /\ pc = "scan"
    /\ i < Len(args)
    /\ LET st == scan_iteration([i |-> i, flags |-> flags, errors |-> errors,
                                 arm |-> "none"], args)
       IN  /\ i' = st.i
           /\ flags' = st.flags
           /\ errors' = st.errors
           /\ asFlag' = IF st.arm # "_" THEN asFlag \cup {i} ELSE asFlag
           /\ asValue' = IF st.i = i + 2 THEN asValue \cup {i + 1} ELSE asValue
    /\ UNCHANGED <<env, args, pc, result, removed, name, verdict>>

\* the loop condition fails: ParsedFlags { flags, errors } is returned
ScanReturn ==
    /\ pc = "scan"
    /\ ~(i < Len(args))
    /\ pc' = "parsed"
    /\ UNCHANGED <<env, args, i, flags, errors, asFlag, asValue,
                   result, removed, name, verdict>>

\* the call of clean_args on the same argument list
CleanArgs ==
    /\ pc = "parsed"
    /\ pc' = "done"
    /\ result' = clean_args(args)
    /\ removed' = {k \in 0..(Len(args) - 1) :
                      clean_after(args, k + 1).result = clean_after(args, k).result}
    /\ UNCHANGED <<env, args, i, flags, errors, asFlag, asValue, name, verdict>>

Next ==
    \/ SeedDefaults
    \/ ScanStep
    \/ ScanReturn
    \/ CleanArgs

\* short argument lists over every token
Spec == Init /\ [][Next]_vars

\* longer argument lists over the smaller token set
SpecDeep == InitDeep /\ [][Next]_vars

---------------------------------------------------------------------------
(* The validator on its own *)

InitValidator ==
    /\ name \in Names
    /\ verdict = None
    /\ pc = "idle"
    /\ env = [AGENT_BROWSER_SESSION_NAME |-> None, AGENT_BROWSER_SESSION |-> None,
              AGENT_BROWSER_EXECUTABLE_PATH |-> None]
    /\ args = <<>>
    /\ i = 0
    /\ flags = NoFlags
    /\ errors = <<>>
    /\ asFlag = {}
    /\ asValue = {}
    /\ result = <<>>
    /\ removed = {}

\* a call of is_valid_session_name(name)
Validate ==
    /\ pc = "idle"
    /\ verdict = None
    /\ verdict' = Some(is_valid_session_name(name))
    /\ UNCHANGED <<env, args, pc, i, flags, errors, asFlag, asValue,
                   result, removed, name>>

NextValidator == Validate

SpecValidator == InitValidator /\ [][NextValidator]_vars

---------------------------------------------------------------------------
(* Vocabulary of the properties *)

\* the characters a session name may hold: a-z, A-Z, 0-9, '-', '_'
AllowedChars == (97..122) \cup (65..90) \cup (48..57) \cup {45, 95}

\* the value-taking global flags
ValueFlagNames == {F_session, F_headers, F_executable_path, F_cdp, F_session_name}

RECURSIVE IsSubseq(_, _)
\* s can be obtained from t by deleting elements
IsSubseq(s, t) ==
    IF s = <<>> THEN TRUE
    ELSE IF t = <<>> THEN FALSE
    ELSE IF Head(s) = Head(t) THEN IsSubseq(Tail(s), Tail(t))
    ELSE IsSubseq(s, Tail(t))

RECURSIVE KeepFrom(_, _, _)
\* the elements of a at the (1-based) positions >= k that are in K, in order
KeepFrom(a, K, k) ==
    IF k > Len(a) THEN <<>>
    ELSE IF k \in K THEN <<a[k]>> \o KeepFrom(a, K, k + 1)
    ELSE KeepFrom(a, K, k + 1)

\* a without the two elements at 0-based indices k and k + 1
Remove2(a, k) == SubSeq(a, 1, k) \o SubSeq(a, k + 3, Len(a))

\* a without its last element
Front(a) == SubSeq(a, 1, Len(a) - 1)

\* the greatest element of a non-empty set of numbers
MaxOf(S) == CHOOSE m \in S : \A n \in S : n <= m

\* the 0-based indices at which the scan has met --session-name as a flag,
\* with a following token that is not a valid session name
RejectedAt == {k \in asFlag : /\ args[k + 1] = F_session_name
                              /\ k + 1 < Len(args)
                              /\ ~is_valid_session_name(args[k + 2])}

---------------------------------------------------------------------------
(* C1 *)

\* C1: once parse_flags has built the Flags struct, at every step of the scan
\* and in the returned result, session_name is None or Some(x) with
\* is_valid_session_name(x), whatever the environment and the arguments.
C1_SessionNameValid ==
    pc \in {"scan", "parsed", "done"} =>
        \/ flags.session_name = None
        \/ /\ Len(flags.session_name) = 1
           /\ is_valid_session_name(flags.session_name[1])

\* an invalid name came from the environment and another from --session-name,
\* and the field is unset in the returned result
C1_Witness ==
    /\ pc = "parsed"
    /\ env.AGENT_BROWSER_SESSION_NAME = Some(E_bad)
    /\ RejectedAt # {}
    /\ flags.session_name = None

---------------------------------------------------------------------------
(* C2 *)

\* C2: is_valid_session_name(name) is false for the empty string and otherwise
\* true exactly when every character of name is in {a-z, A-Z, 0-9, '-', '_'}.
C2_ValidatorContract ==
    verdict # None =>
        verdict[1] = (/\ name # <<>>
                      /\ \A k \in 1..Len(name) : name[k] \in AllowedChars)

\* a name whose only character outside the set is a non-ASCII one, in last
\* position, was rejected
C2_Witness ==
    /\ verdict = Some(FALSE)
    /\ Len(name) >= 2
    /\ name[Len(name)] = 233
    /\ \A k \in 1..(Len(name) - 1) : name[k] \in AllowedChars

---------------------------------------------------------------------------
(* C3 *)

\* C3: what clean_args returns is a subsequence of args and holds no element
\* equal to one of the ten global flag names.
C3_CleanNoFlags ==
    pc = "done" =>
        /\ IsSubseq(result, args)
        /\ \A k \in 1..Len(result) : result[k] \notin FlagNames

\* clean_args returned a non-empty list after dropping a flag and its value
C3_Witness ==
    /\ pc = "done"
    /\ result # <<>>
    /\ Len(result) + 2 <= Len(args)
    /\ \E k \in 1..Len(args) : args[k] \in ValueFlagNames

---------------------------------------------------------------------------
(* C4 *)

\* the 1-based positions the claim as written removes: every flag name, and
\* every position right after a value-taking flag name
C4_WrittenRemoved ==
    {k \in 1..Len(args) :
        \/ args[k] \in FlagNames
        \/ (k > 1 /\ args[k - 1] \in ValueFlagNames)}

\* C4 as written: clean_args(args) is args without every token equal to a
\* flag name and without the token right after every value-taking flag name.
C4_AsWritten ==
    pc = "done" => result = KeepFrom(args, (1..Len(args)) \ C4_WrittenRemoved, 1)

RECURSIVE IsValuePos(_, _)
\* position k (1-based) of a follows a value-taking flag name that is not
\* itself in such a position
IsValuePos(a, k) ==
    /\ k > 1
    /\ a[k - 1] \in ValueFlagNames
    /\ ~IsValuePos(a, k - 1)

\* the positions the amended claim removes
C4_AmendedRemoved ==
    {k \in 1..Len(args) : args[k] \in FlagNames \/ IsValuePos(args, k)}

\* C4, amended: clean_args(args) is args without every token equal to a flag
\* name and without the token right after every value-taking flag name that
\* is not itself the token taken as the value of the flag before it; all other
\* tokens are kept in order.
C4_Amended ==
    pc = "done" => result = KeepFrom(args, (1..Len(args)) \ C4_AmendedRemoved, 1)

\* a value-taking flag name stood in value position and the token after it,
\* no flag name, was kept
C4_Witness ==
    /\ pc = "done"
    /\ \E k \in 2..(Len(args) - 1) :
          /\ IsValuePos(args, k)
          /\ args[k] \in ValueFlagNames
          /\ args[k + 1] \notin FlagNames
          /\ result # <<>>
          /\ result[Len(result)] = args[k + 1]

---------------------------------------------------------------------------
(* C5 *)

\* C5: for every --session-name the scan has met as a flag with an invalid
\* following token v: v was consumed; right after that step the Flags struct
\* is the one built from the tokens before the flag, and the error list is
\* the one built from them plus one error for v; and the returned Flags are
\* those parse_flags builds from args without that flag and v.
C5_RejectedValueConsumed ==
    pc \in {"scan", "parsed", "done"} =>
        \A k \in RejectedAt :
            LET before == parse_flags(env, SubSeq(args, 1, k))
            IN  /\ (k + 1) \in asValue
                /\ i >= k + 2
                /\ i = k + 2 =>
                      /\ flags = before.flags
                      /\ errors = Append(before.errors,
                                         session_name_error(args[k + 2]))
                /\ pc = "parsed" =>
                      flags = parse_flags(env, Remove2(args, k)).flags

\* a --session-name with a valid value was followed by one with an invalid
\* value; the accepted name is returned, with one error
C5_Witness ==
    /\ pc = "parsed"
    /\ \E k \in RejectedAt :
          /\ (k - 2) \in asFlag
          /\ args[k - 1] = F_session_name
          /\ flags.session_name = Some(args[k])
    /\ Len(errors) = 1

---------------------------------------------------------------------------
(* C6 *)

\* C6: when the last element of args is a value-taking flag that the scan met
\* as a flag, the returned Flags and errors are those of parsing args without
\* that last element.
C6_TrailingValueFlagIgnored ==
    (/\ pc = "parsed"
     /\ args # <<>>
     /\ args[Len(args)] \in ValueFlagNames
     /\ (Len(args) - 1) \in asFlag) =>
        [flags |-> flags, errors |-> errors] = parse_flags(env, Front(args))

\* --executable-path came last, was met as a flag, and the field holds the
\* value of the environment
C6_Witness ==
    /\ pc = "parsed"
    /\ Len(args) >= 2
    /\ args[Len(args)] = F_executable_path
    /\ (Len(args) - 1) \in asFlag
    /\ env.AGENT_BROWSER_EXECUTABLE_PATH = Some(E_path)
    /\ flags.executable_path = Some(E_path)

---------------------------------------------------------------------------
(* C7 *)

\* the 0-based indices at which the scan met flag f with a token after it
C7_Given(f) == {k \in asFlag : args[k + 1] = f /\ k + 1 < Len(args)}

\* C7: the returned session is the value of the last --session met as a flag
\* with a following token, else AGENT_BROWSER_SESSION, else "default"; the
\* returned executable_path is the value of the last such --executable-path,
\* else AGENT_BROWSER_EXECUTABLE_PATH, else None.
C7_FlagOverEnvLastWins ==
    pc = "parsed" =>
        /\ flags.session =
              IF C7_Given(F_session) # {}
              THEN args[MaxOf(C7_Given(F_session)) + 2]
              ELSE IF env.AGENT_BROWSER_SESSION # None
                   THEN env.AGENT_BROWSER_SESSION[1]
                   ELSE S_default
        /\ flags.executable_path =
              IF C7_Given(F_executable_path) # {}
              THEN Some(args[MaxOf(C7_Given(F_executable_path)) + 2])
              ELSE env.AGENT_BROWSER_EXECUTABLE_PATH

\* --session was given twice with different values while the environment set
\* AGENT_BROWSER_SESSION, and the second value was returned
C7_Witness ==
    /\ pc = "parsed"
    /\ env.AGENT_BROWSER_SESSION # None
    /\ Cardinality(C7_Given(F_session)) = 2
    /\ \E k \in C7_Given(F_session) :
          /\ k # MaxOf(C7_Given(F_session))
          /\ args[k + 2] # flags.session
    /\ flags.session = args[MaxOf(C7_Given(F_session)) + 2]

---------------------------------------------------------------------------
(* C8 *)

RECURSIVE C8_FlagErrors(_)
\* one error per rejected --session-name value at a 0-based index >= k, in
\* argument order
C8_FlagErrors(k) ==
    IF k >= Len(args) THEN <<>>
    ELSE IF k \in RejectedAt
         THEN <<session_name_error(args[k + 2])>> \o C8_FlagErrors(k + 1)
         ELSE C8_FlagErrors(k + 1)

\* the error for an invalid AGENT_BROWSER_SESSION_NAME, if any
C8_EnvErrors ==
    IF /\ env.AGENT_BROWSER_SESSION_NAME # None
       /\ ~is_valid_session_name(env.AGENT_BROWSER_SESSION_NAME[1])
    THEN << <<"Invalid AGENT_BROWSER_SESSION_NAME '",
              env.AGENT_BROWSER_SESSION_NAME[1],
              "'. Only alphanumeric characters, hyphens, and underscores are allowed.">> >>
    ELSE <<>>

\* C8: at every step of the scan and in the returned result, the error list is
\* the error for an invalid AGENT_BROWSER_SESSION_NAME, if any, followed by
\* one error per --session-name met so far whose consumed value is invalid, in
\* argument order, and nothing else.
C8_ErrorsInDiscoveryOrder ==
    pc \in {"scan", "parsed", "done"} =>
        errors = C8_EnvErrors \o C8_FlagErrors(0)

\* the environment error is followed by the errors of two --session-name
\* flags with different invalid values
C8_Witness ==
    /\ pc = "parsed"
    /\ Len(errors) = 3
    /\ errors[1][1] = "Invalid AGENT_BROWSER_SESSION_NAME '"
    /\ errors[2][1] = "Invalid session name '"
    /\ errors[3][1] = "Invalid session name '"
    /\ errors[2][2] # errors[3][2]

---------------------------------------------------------------------------
(* C9 *)

\* C9: for args ["--session-name", "--json"], parse_flags returns
\* session_name = Some("--json"), json = false and no error from a flag.
C9_FlagNameTakenAsValue ==
    (pc = "parsed" /\ args = <<F_session_name, F_json>>) =>
        /\ flags.session_name = Some(F_json)
        /\ flags.json = FALSE
        /\ \A k \in 1..Len(errors) : errors[k][1] # "Invalid session name '"

\* parse_flags returned for that argument list, with a valid name in the
\* environment that the flag replaced
C9_Witness ==
    /\ pc = "parsed"
    /\ args = <<F_session_name, F_json>>
    /\ env.AGENT_BROWSER_SESSION_NAME = Some(E_good)
    /\ flags.session_name = Some(F_json)

---------------------------------------------------------------------------
(* C10 *)

\* C10: the indices clean_args removes are those parse_flags matched as a flag
\* or consumed as a value, and parse_flags of what clean_args returns gives
\* the defaults seeded from the environment with no error from a flag.
C10_ParseAndCleanAgree ==
    pc = "done" =>
        /\ removed = asFlag \cup asValue
        /\ parse_flags(env, result) =
              [flags |-> default_flags(env), errors |-> C8_EnvErrors]

\* both routines returned; some tokens were kept, a flag was matched and a
\* value consumed
C10_Witness ==
    /\ pc = "done"
    /\ result # <<>>
    /\ asFlag # {}
    /\ asValue # {}
    /\ removed = asFlag \cup asValue

===========================================================================
